---------------------------- MODULE Spec2Model ----------------------------
(***************************************************************************)
(* Checkpoint lifecycle of gpt-neox (megatron/checkpointing.py):           *)
(* save_checkpoint / save_ds_checkpoint, delete_old_checkpoints and        *)
(* load_checkpoint, over a shared checkpoint directory.                    *)
(*                                                                         *)
(* Spec      one process (world size 1) saving, loading and restarting.    *)
(* SpecRanks several ranks executing save_checkpoint step by step, with    *)
(*           the two barriers and the rank-0 retention between them.       *)
(* SpecRanksFair  SpecRanks under fair scheduling of the ranks.            *)
(* SpecFs    SpecRanks with directories removed by something else.         *)
(* SpecFwd   the ranks executing do_forward_pass / check_forward_pass.     *)
(* SpecLoad  the ranks executing load_checkpoint.                          *)
(* SpecName  get_checkpoint_name as a function.                            *)
(* SpecPrune delete_old_checkpoints as a function of path and directory.   *)
(***************************************************************************)
EXTENDS Integers, Sequences, FiniteSets, TLC

VARIABLES
    neox_args,    \* the run configuration of the running process(es)
    phase,        \* Spec: the process is at "start", in "train", or "dead"
    iteration,    \* the training loop's iteration counter
    rng,          \* the process's RNG state, one value per domain
    entries,      \* names of the sub-directories of the save directory
    latest,       \* the engine's `latest` tag (a step number) or None
    record,       \* the client state stored with the latest checkpoint
    last,         \* what the last call of save/load_checkpoint did
    pc,           \* SpecRanks: where each rank is inside save_checkpoint
    barrier,      \* SpecRanks: ranks waiting in the current barrier
    written,      \* SpecRanks: ranks whose engine write has completed
    to_delete,    \* SpecRanks: rank 0's remaining to_delete list
    removed,      \* SpecRanks: log of removals, <<rank, name, writers>>
    local         \* SpecFwd, SpecLoad: each rank's model, tensors and results;
                  \* Spec: the RNG state at the return of the last save;
                  \* SpecPrune: the working directory

vars == <<neox_args, phase, iteration, rng, entries, latest, record,
          last, pc, barrier, written, to_delete, removed, local>>

procVars == <<phase, iteration, rng, last>>
diskVars == <<entries, latest, record>>
rankVars == <<pc, barrier, written, to_delete, removed>>

\* Python's None, where an integer (an iteration, a tag, a count) is expected
None == 0 - 1

-----------------------------------------------------------------------------
(* Bounds *)

MaxIter == 2        \* iterations SaveInterval * (0..MaxIter)
MaxRng == 1         \* RNG positions 0..MaxRng
SaveInterval == 5   \* iterations between two checkpoints
MaxKeep == 2        \* keep_last_n_checkpoints in None, 0..MaxKeep
MaxEdits == 2       \* departures of a loaded record from the one written
NumRanks == 2       \* SpecRanks: ranks 0..NumRanks-1

-----------------------------------------------------------------------------
(* Strings are sequences of characters. *)

DigitChars == <<"0", "1", "2", "3", "4", "5", "6", "7", "8", "9">>

IsDigit(c) == \E i \in 1..10 : DigitChars[i] = c

DigitValue(c) == (CHOOSE i \in 1..10 : DigitChars[i] = c) - 1

\* ASCII order of the characters that occur in the checkpoint paths
Alphabet == <<"/", "0", "1", "2", "3", "4", "5", "6", "7", "8", "9", "_",
              "a", "b", "c", "e", "g", "i", "k", "l", "o", "p", "r", "s", "t">>

CharCode(c) == CHOOSE i \in 1..Len(Alphabet) : Alphabet[i] = c

RECURSIVE Digits(_)
\* str(n) / '{}'.format(n): the decimal digits of n
Digits(n) == IF n < 10 THEN <<DigitChars[n + 1]>>
             ELSE Digits(n \div 10) \o <<DigitChars[(n % 10) + 1]>>

RECURSIVE IntOf(_)
\* int(text) of a non-empty run of digits
IntOf(s) == IF Len(s) = 0 THEN 0
            ELSE 10 * IntOf(SubSeq(s, 1, Len(s) - 1)) + DigitValue(s[Len(s)])

\* lexicographic order of two strings (Python's str <)
RECURSIVE StrLess(_, _)
StrLess(a, b) ==
    IF Len(b) = 0 THEN FALSE
    ELSE IF Len(a) = 0 THEN TRUE
    ELSE IF a[1] # b[1] THEN CharCode(a[1]) < CharCode(b[1])
    ELSE StrLess(Tail(a), Tail(b))

\* whether sub occurs in s: re.search of a pattern that is a literal
Contains(s, sub) ==
    \E i \in 0..(Len(s) - Len(sub)) : SubSeq(s, i + 1, i + Len(sub)) = sub

-----------------------------------------------------------------------------
(* natural_sort (megatron.utils): sort by the key that splits a name into  *)
(* text and digit runs and compares the digit runs as integers.            *)

\* last index of the run of digits (digit = TRUE) or non-digits from i on
RunEnd(s, i, digit) ==
    CHOOSE j \in (i - 1)..Len(s) :
        /\ \A k \in i..j : IsDigit(s[k]) = digit
        /\ (j < Len(s) => IsDigit(s[j + 1]) # digit)

RECURSIVE KeyText(_, _), KeyNum(_, _)
KeyText(s, i) ==
    LET j == RunEnd(s, i, FALSE)
    IN  <<[num |-> FALSE, text |-> SubSeq(s, i, j), val |-> 0]>>
        \o (IF j >= Len(s) THEN <<>> ELSE KeyNum(s, j + 1))
KeyNum(s, i) ==
    LET j == RunEnd(s, i, TRUE)
    IN  <<[num |-> TRUE, text |-> <<>>, val |-> IntOf(SubSeq(s, i, j))]>>
        \o KeyText(s, j + 1)

\* alphanum_key: re.split('([0-9]+)', key) with the digit runs converted
NaturalKey(s) == KeyText(s, 1)

ChunkLess(a, b) == IF a.num THEN a.val < b.val ELSE StrLess(a.text, b.text)

RECURSIVE KeyLess(_, _)
KeyLess(a, b) ==
    IF Len(b) = 0 THEN FALSE
    ELSE IF Len(a) = 0 THEN TRUE
    ELSE IF a[1] = b[1] THEN KeyLess(Tail(a), Tail(b))
    ELSE ChunkLess(a[1], b[1])

NaturalLess(a, b) == KeyLess(NaturalKey(a), NaturalKey(b))

RECURSIVE SortBy(_, _)
\* sorted(S, key = ...), Less(a, b) is operator-valued through the flag
SortBy(S, natural) ==
    IF S = {} THEN <<>>
    ELSE LET m == CHOOSE x \in S : \A y \in S :
                      ~(IF natural THEN NaturalLess(y, x) ELSE StrLess(y, x))
         IN  <<m>> \o SortBy(S \ {m}, natural)

\* mutant: plain sorted(), the order of the strings
natural_sort_plain(S) == SortBy(S, FALSE)

natural_sort(S) == SortBy(S, TRUE)

-----------------------------------------------------------------------------
(* The run configuration (neox_args) and the save-state record.            *)

\* the architecture arguments, in the order save_ds_checkpoint stores them
ArgOrder == <<"num_layers", "hidden_size", "num_attention_heads",
              "max_position_embeddings", "make_vocab_size_divisible_by",
              "padded_vocab_size", "tokenizer_type", "model_parallel_size">>

ArgNames == {ArgOrder[i] : i \in 1..Len(ArgOrder)}

ArchValues == {12, 24}

\* the RNG keys of the record, in the order load_checkpoint restores them
RngOrder == <<"random_rng_state", "np_rng_state", "torch_rng_state",
              "cuda_rng_state", "rng_tracker_states">>

RngKeys == {RngOrder[i] : i \in 1..Len(RngOrder)}

\* neox_args.save, the checkpoint directory
SaveDir == <<"c", "k", "p", "t", "s">>

KeepValues == {None} \cup 0..MaxKeep

Flags == {"deepspeed", "finetune", "no_load_rng", "no_save_rng",
          "no_load_optim", "checkpoint_validation_with_forward_pass"}

DefaultFlags == [f \in Flags |-> f = "deepspeed"]

Config(flags, keep) ==
    [n \in ArgNames |-> 12] @@ flags @@
    [keep_last_n_checkpoints |-> keep, save |-> SaveDir]

\* The flag settings of the model. The two flags that act on one statement
\* only are varied with the others at their defaults: deepspeed (off: save
\* and load raise at once) and no_load_optim (an argument of the engine's
\* load; varied together with finetune).
FlagSets ==
    {f \in [Flags -> BOOLEAN] :
        /\ ~f["deepspeed"] => f = [DefaultFlags EXCEPT !["deepspeed"] = FALSE]
        /\ f["no_load_optim"] =>
              \E b \in BOOLEAN :
                 f = [DefaultFlags EXCEPT !["no_load_optim"] = TRUE,
                                          !["finetune"] = b]}

\* the run configurations of the model: a run varies the flags (without
\* retention) or the retention count (with the default flags); the
\* architecture of the running model is one fixed architecture
Configs ==
    {Config(f, None) : f \in FlagSets}
    \cup {Config(DefaultFlags, k) : k \in KeepValues}

\* dict.get(key): None when the key is absent
Get(sd, k) == IF k \in DOMAIN sd THEN sd[k] ELSE None

\* Python's `a or b` on integers and None: b when a is None or 0
PyOr(a, b) == IF a # None /\ a # 0 THEN a ELSE b

\* the process's RNG domains after drawing n values from every generator
FreshRng == [k \in RngKeys |-> 0]

\* torch.randint draws from torch's default (CPU) generator
DrawTorch(r) == [r EXCEPT !["torch_rng_state"] = @ + 1]

\* the logits of one forward pass of the model over the context tokens
ForwardLogits(tokens, drift) == 3 * tokens + drift

\* the context tokens of a checkpoint's validation payload
SavedTokens == 1

\* torch.isclose on the logits: equal up to one unit of rounding
IsClose(a, b) == (a - b) \in -1..1

\* the numeric drift of a repeated forward pass: none, rounding, corruption
Drifts == {0, 1, 2}

-----------------------------------------------------------------------------
(* Checkpoint naming and the directory listing.                            *)

GlobalStepStr == <<"g", "l", "o", "b", "a", "l", "_", "s", "t", "e", "p">>

\* the directory the engine writes the checkpoint of step n to
StepDirName(n) == GlobalStepStr \o Digits(n)

\* the iterations of the model: 0 and every SaveInterval-th after it
Iterations == {k * SaveInterval : k \in 0..MaxIter}

\* f'{save_dir}/*' for one entry of the directory
PathOf(dir, name) == dir \o <<"/">> \o name

-----------------------------------------------------------------------------
(* save_ds_checkpoint                                                      *)

\* the record save_ds_checkpoint builds, and the RNG state it leaves
save_ds_checkpoint(it, cfg, r) ==
    LET base == [k \in {"iteration"} |-> it]
                @@ [k \in {"args"} |-> [n \in ArgNames |-> cfg[n]]]
        rngs == IF cfg["no_save_rng"] THEN <<>> ELSE [k \in RngKeys |-> r[k]]
        probe == cfg["checkpoint_validation_with_forward_pass"]
        tokens == r["torch_rng_state"]
        val  == IF probe
                THEN [k \in {"checkpoint_validation"} |->
                        [context_tokens |-> tokens,
                         logits |-> ForwardLogits(tokens, 0)]]
                ELSE <<>>
    IN  [sd  |-> base @@ rngs @@ val,
         rng |-> IF probe THEN DrawTorch(r) ELSE r]

-----------------------------------------------------------------------------
(* delete_old_checkpoints                                                  *)

RECURSIVE StripSlashes(_)
\* str.strip('/'): the slashes at both ends removed
StripSlashes(s) ==
    IF Len(s) > 0 /\ s[1] = "/" THEN StripSlashes(Tail(s))
    ELSE IF Len(s) > 0 /\ s[Len(s)] = "/"
         THEN StripSlashes(SubSeq(s, 1, Len(s) - 1))
    ELSE s

\* the directory delete_old_checkpoints globs in
ListedDir(save_dir) ==
    IF Len(save_dir) > 0 /\ save_dir[Len(save_dir)] = "/"
    THEN StripSlashes(save_dir) ELSE save_dir

\* the plain files of the save directory: the engine's `latest` file
LatestFile == <<"l", "a", "t", "e", "s", "t">>

PlainFiles(tag) == IF tag = None THEN {} ELSE {LatestFile}

\* mutant: the pattern is the one of get_checkpoint_name's directories
AllCkpts_iter_names(save_dir, dirs, files) ==
    LET dir == ListedDir(save_dir)
    IN  natural_sort({PathOf(dir, e) : e \in
            {x \in dirs \cup files :
                /\ x \in dirs
                /\ Contains(PathOf(dir, x), <<"i", "t", "e", "r", "_">>)}})

\* all_ckpts: the globbed paths that are directories and match the regex,
\* in natural order
AllCkpts(save_dir, dirs, files) ==
    LET dir == ListedDir(save_dir)
    IN  natural_sort({PathOf(dir, e) : e \in
            {x \in dirs \cup files :
                /\ x \in dirs
                /\ Contains(PathOf(dir, x), GlobalStepStr)}})

\* mutant: the newest directories are deleted, all_ckpts[-n_to_delete:]
ToDelete_newest(all_ckpts, n_to_keep) ==
    LET n_to_delete == Len(all_ckpts) - n_to_keep
    IN  IF n_to_delete > 0
        THEN SubSeq(all_ckpts,
                    IF n_to_delete > Len(all_ckpts) THEN 1
                    ELSE Len(all_ckpts) - n_to_delete + 1,
                    Len(all_ckpts))
        ELSE <<>>

\* to_delete = all_ckpts[:n_to_delete] when n_to_delete > 0
ToDelete(all_ckpts, n_to_keep) ==
    LET n_to_delete == Len(all_ckpts) - n_to_keep
    IN  IF n_to_delete > 0
        THEN SubSeq(all_ckpts, 1,
                    IF n_to_delete > Len(all_ckpts) THEN Len(all_ckpts)
                    ELSE n_to_delete)
        ELSE <<>>

\* whether the path ckpt is a directory of the save directory
Present(save_dir, dirs, ckpt) ==
    \E e \in dirs : PathOf(ListedDir(save_dir), e) = ckpt

\* mutant: a FileNotFoundError is not caught
RmtreeOutcome_propagate(present, fault) ==
    IF present /\ ~fault THEN "removed" ELSE "raised"

\* one pass of the removal loop: rmtree removes a directory that is there,
\* its FileNotFoundError for one that is not is caught, another error
\* (fault) leaves the loop and the function
RmtreeOutcome(present, fault) ==
    IF ~present THEN "swallowed"
    ELSE IF fault THEN "raised"
    ELSE "removed"

\* shutil.rmtree(ckpt): the directory entries left
RmTree(save_dir, dirs, ckpt) ==
    {e \in dirs : PathOf(ListedDir(save_dir), e) # ckpt}

Range(q) == {q[i] : i \in 1..Len(q)}

\* the entries left when the first n removals of to_delete are done
AfterRemovals(save_dir, dirs, del, n) ==
    {e \in dirs : PathOf(ListedDir(save_dir), e) \notin Range(SubSeq(del, 1, n))}

\* mutant: retention is called whatever keep_last_n is
PruneEnabled_always(cfg) == TRUE

\* mutant: every rank deletes
IsPruner_any(rank) == TRUE

\* save_checkpoint calls delete_old_checkpoints unless keep_last_n is None
PruneEnabled(cfg) == cfg["keep_last_n_checkpoints"] # None

\* delete_old_checkpoints acts on the process whose global rank is 0
IsPruner(rank) == rank = 0

-----------------------------------------------------------------------------
(* load_checkpoint                                                         *)

NoError == [kind |-> "none", field |-> "", ckpt |-> None, cur |-> None]

Err(kind) == [kind |-> kind, field |-> "", ckpt |-> None, cur |-> None]

\* mutant: only the layer count is compared
check_checkpoint_args_layers_only(cfg, checkpoint_args) ==
    IF "num_layers" \in DOMAIN checkpoint_args
       /\ checkpoint_args["num_layers"] # cfg["num_layers"]
    THEN [kind |-> "AssertionError", field |-> "num_layers",
          ckpt |-> checkpoint_args["num_layers"], cur |-> cfg["num_layers"]]
    ELSE NoError

\* check_checkpoint_args: the first stored argument, in the record's order,
\* that differs from the current one
check_checkpoint_args(cfg, checkpoint_args) ==
    LET bad == {i \in 1..Len(ArgOrder) :
                   /\ ArgOrder[i] \in DOMAIN checkpoint_args
                   /\ checkpoint_args[ArgOrder[i]] # cfg[ArgOrder[i]]}
    IN  IF bad = {} THEN NoError
        ELSE LET i == CHOOSE j \in bad : \A k \in bad : j <= k
             IN  [kind |-> "AssertionError", field |-> ArgOrder[i],
                  ckpt |-> checkpoint_args[ArgOrder[i]],
                  cur |-> cfg[ArgOrder[i]]]

\* mutant: the stored iteration is used for a fine-tune load too
ResolveIteration_stored(cfg, sd) ==
    PyOr(Get(sd, "iteration"), Get(sd, "total_iters"))

\* the iteration load_checkpoint resolves from the record
ResolveIteration(cfg, sd) ==
    IF cfg["finetune"] THEN 0
    ELSE PyOr(Get(sd, "iteration"), Get(sd, "total_iters"))

\* mutant: logits that are not exactly equal fail the assertion
CompareLogits_exact_only(logits, checkpoint_logits, dp_rank) ==
    IF logits = None THEN [verdict |-> "skipped", warned |-> FALSE]
    ELSE IF logits = checkpoint_logits
         THEN [verdict |-> "exact", warned |-> FALSE]
    ELSE [verdict |-> "far", warned |-> dp_rank = 0]

\* the comparison of check_forward_pass: none on a rank without logits;
\* equal logits pass; others are warned about on data-parallel rank 0 and
\* must be close
CompareLogits(logits, checkpoint_logits, dp_rank) ==
    IF logits = None THEN [verdict |-> "skipped", warned |-> FALSE]
    ELSE IF logits = checkpoint_logits
         THEN [verdict |-> "exact", warned |-> FALSE]
    ELSE [verdict |-> IF IsClose(logits, checkpoint_logits) THEN "close"
                      ELSE "far",
          warned |-> dp_rank = 0]

\* check_forward_pass on a process that holds logits and is data-parallel
\* rank 0: passes silently, passes with a warning, or asserts
check_forward_pass(sd, drift) ==
    LET saved  == sd["checkpoint_validation"]
        logits == ForwardLogits(saved.context_tokens, drift)
    IN  CompareLogits(logits, saved.logits, 0).verdict

RECURSIVE RestoreFrom(_, _, _)
\* the setstate calls in order, up to the first key the record lacks
RestoreFrom(sd, r, i) ==
    IF i > Len(RngOrder) THEN [rng |-> r, ok |-> TRUE]
    ELSE IF RngOrder[i] \notin DOMAIN sd THEN [rng |-> r, ok |-> FALSE]
    ELSE RestoreFrom(sd, [r EXCEPT ![RngOrder[i]] = sd[RngOrder[i]]], i + 1)

\* mutant: a key the record lacks is skipped and the load goes on
RestoreRng_skip_missing(sd, r) ==
    [rng |-> [k \in RngKeys |-> IF k \in DOMAIN sd THEN sd[k] ELSE r[k]],
     ok |-> TRUE]

RestoreRng(sd, r) == RestoreFrom(sd, r, 1)

Outcome(status, value, error, steps, r, warned) ==
    [status |-> status, value |-> value, error |-> error, steps |-> steps,
     rng |-> r, warned |-> warned]

\* mutant: a missing checkpoint is an error
NotFound_raises(r) ==
    Outcome("raised", None, Err("ValueError_iteration"), <<"engine_load">>,
            r, FALSE)

\* checkpoint_name is None: "Unable to load checkpoint.", return 0
NotFound(r) == Outcome("returned", 0, NoError, <<"engine_load">>, r, FALSE)

\* mutant: a record without a validation payload fails the validation
ValidationStep_payload_required(cfg, sd, drift) ==
    IF ~cfg["checkpoint_validation_with_forward_pass"] THEN "off"
    ELSE IF "checkpoint_validation" \in DOMAIN sd
         THEN check_forward_pass(sd, drift)
    ELSE "far"

\* the validation step of load_checkpoint: off; check_forward_pass when
\* the record has a payload; a warning only when it has none
ValidationStep(cfg, sd, drift) ==
    IF ~cfg["checkpoint_validation_with_forward_pass"] THEN "off"
    ELSE IF "checkpoint_validation" \in DOMAIN sd
         THEN check_forward_pass(sd, drift)
    ELSE "absent"

\* mutant: the engine is taken to be active
EngineActive_assumed(cfg) == TRUE

\* `if neox_args.deepspeed:` of save_checkpoint and load_checkpoint
EngineActive(cfg) == cfg["deepspeed"]

\* load_checkpoint from its first line to its return, raise or exit.
\* found: the engine returned a checkpoint name; sd: the state_dict.
load_checkpoint(cfg, found, sd, r, drift) ==
    IF ~EngineActive(cfg)
    THEN Outcome("raised", None, Err("ValueError_deepspeed"), <<>>, r, FALSE)
    ELSE IF ~found
    THEN NotFound(r)
    ELSE
    LET it == ResolveIteration(cfg, sd)
        s1 == <<"engine_load", "iteration">>
    IN  IF it = None
        THEN Outcome("raised", None, Err("ValueError_iteration"), s1, r, FALSE)
        ELSE
    LET argerr == IF "args" \in DOMAIN sd
                  THEN check_checkpoint_args(cfg, sd["args"]) ELSE NoError
        s2 == IF "args" \in DOMAIN sd THEN Append(s1, "args") ELSE s1
    IN  IF argerr # NoError
        THEN Outcome("raised", None, argerr, s2, r, FALSE)
        ELSE
    LET verdict  == ValidationStep(cfg, sd, drift)
        validate == verdict \in {"exact", "close", "far"}
        warned   == verdict \in {"close", "far", "absent"}
        s3 == IF validate THEN Append(s2, "forward_pass") ELSE s2
    IN  IF verdict = "far"
        THEN Outcome("raised", None, Err("AssertionError_close"), s3, r, TRUE)
        ELSE
    LET restore == ~cfg["finetune"] /\ ~cfg["no_load_rng"]
        res == IF restore THEN RestoreRng(sd, r) ELSE [rng |-> r, ok |-> TRUE]
        s4 == IF restore THEN Append(s3, "rng") ELSE s3
    IN  IF ~res.ok
        THEN Outcome("exited", None, Err("SystemExit"), s4, res.rng, warned)
        ELSE Outcome("returned", it, NoError, Append(s4, "barrier"),
                     res.rng, warned)

-----------------------------------------------------------------------------
(* The state_dict the engine hands to load_checkpoint.                     *)

Restrict(sd, keys) == [k \in keys |-> sd[k]]

\* The checkpoint found need not be one this code wrote: an older or a
\* foreign record may lack a key, carry the iteration under its older name,
\* or come from a run of another architecture.
Edit1(sd) ==
    {Restrict(sd, (DOMAIN sd) \ {k}) : k \in DOMAIN sd}
    \cup (IF "iteration" \in DOMAIN sd /\ "total_iters" \notin DOMAIN sd
          THEN {Restrict(sd, (DOMAIN sd) \ {"iteration"})
                @@ [k \in {"total_iters"} |-> sd["iteration"]]}
          ELSE {})
    \cup (IF "args" \in DOMAIN sd
          THEN {[sd EXCEPT !["args"] = [@ EXCEPT ![n] = v]] :
                   n \in DOMAIN sd["args"], v \in ArchValues}
          ELSE {})

RECURSIVE Edited(_, _)
Edited(S, n) ==
    IF n = 0 THEN S ELSE Edited(S \cup UNION {Edit1(sd) : sd \in S}, n - 1)

\* the record as a run with validation on would have written it
WithPayload(sd) ==
    IF "checkpoint_validation" \in DOMAIN sd THEN sd
    ELSE sd @@ [k \in {"checkpoint_validation"} |->
                  [context_tokens |-> SavedTokens,
                   logits |-> ForwardLogits(SavedTokens, 0)]]

\* the records the engine may return for the record on disk
StateDicts(rec) == Edited({rec}, MaxEdits) \cup {WithPayload(rec)}

-----------------------------------------------------------------------------
(* Spec: one process, world size 1.                                        *)

NoCall == [op |-> "none"]

\* the engine finds a checkpoint when `latest` names an existing directory
Found == latest # None /\ StepDirName(latest) \in entries

RanksIdle ==
    /\ pc = [r \in 0..(NumRanks - 1) |-> "idle"]
    /\ barrier = {}
    /\ written = {}
    /\ to_delete = <<>>
    /\ removed = <<>>
    /\ local = <<>>

Init ==
    /\ neox_args \in Configs
    /\ phase = "start"
    /\ iteration = 0
    /\ rng = FreshRng
    /\ entries = {}
    /\ latest = None
    /\ record = <<>>
    /\ last = NoCall
    /\ RanksIdle

\* the run was started without a checkpoint to load
BeginTraining ==
    /\ phase = "start"
    /\ phase' = "train"
    /\ last' = NoCall
    /\ UNCHANGED <<neox_args, local, iteration, rng, diskVars, rankVars>>

\* SaveInterval training steps: every generator is drawn from
TrainStep ==
    /\ phase = "train"
    /\ iteration < MaxIter * SaveInterval
    /\ \A k \in RngKeys : rng[k] < MaxRng
    /\ iteration' = iteration + SaveInterval
    /\ rng' = [k \in RngKeys |-> rng[k] + 1]
    /\ last' = NoCall
    /\ UNCHANGED <<neox_args, local, phase, diskVars, rankVars>>

\* save_checkpoint(neox_args, iteration, model, optimizer, lr_scheduler);
\* done: the removals of to_delete that succeed before one raises
\* local remembers the RNG state of the process when the call returned
SaveCheckpoint ==
    /\ phase = "train"
    /\ rng["torch_rng_state"] <= MaxRng
    /\ IF ~EngineActive(neox_args)
       THEN /\ phase' = "dead"
            /\ last' = [op |-> "save", status |-> "raised",
                        error |-> Err("ValueError_deepspeed"),
                        rng_before |-> rng]
            /\ UNCHANGED <<rng, diskVars, local>>
       ELSE LET out   == save_ds_checkpoint(iteration, neox_args, rng)
                dirs1 == entries \cup {StepDirName(iteration)}
                keep  == neox_args["keep_last_n_checkpoints"]
                del   == IF ~PruneEnabled(neox_args) \/ ~IsPruner(0) THEN <<>>
                         ELSE ToDelete(AllCkpts(neox_args["save"], dirs1,
                                                PlainFiles(iteration)), keep)
            IN  \E done \in 0..Len(del) :
                  /\ rng' = out.rng
                  /\ record' = out.sd
                  /\ latest' = iteration
                  /\ entries' = AfterRemovals(neox_args["save"], dirs1,
                                              del, done)
                  /\ phase' = IF done = Len(del) THEN "train" ELSE "dead"
                  /\ local' = IF done = Len(del)
                              THEN [saver_rng |-> out.rng] ELSE <<>>
                  /\ last' = [op |-> "save",
                              status |-> IF done = Len(del) THEN "returned"
                                         ELSE "raised",
                              error |-> IF done = Len(del) THEN NoError
                                        ELSE Err("OSError"),
                              iteration |-> iteration,
                              rng_before |-> rng,
                              dirs_before |-> entries,
                              dirs_written |-> dirs1,
                              pruned |-> PruneEnabled(neox_args),
                              to_delete |-> del]
    /\ UNCHANGED <<neox_args, iteration, rankVars>>

\* load_optim_and_scheduler = not neox_args.no_load_optim, the value of
\* both load_optimizer_states and load_lr_scheduler_states
load_optim_and_scheduler(cfg) == ~cfg["no_load_optim"]

\* whether load_checkpoint runs the forward pass on this state_dict
Validates(cfg, sd) ==
    /\ cfg["checkpoint_validation_with_forward_pass"]
    /\ "checkpoint_validation" \in DOMAIN sd

\* load_checkpoint(neox_args, model, optimizer, lr_scheduler) at start-up;
\* the caller takes the returned value as its iteration
LoadCheckpoint ==
    /\ phase = "start"
    /\ \E sd \in (IF Found THEN StateDicts(record) ELSE {<<>>}) :
       \E drift \in (IF Validates(neox_args, sd) THEN Drifts ELSE {0}) :
         LET out == load_checkpoint(neox_args, Found, sd, rng, drift)
         IN  /\ phase' = IF out.status = "returned" THEN "train" ELSE "dead"
             /\ iteration' = IF out.status = "returned" THEN out.value
                             ELSE iteration
             /\ rng' = out.rng
             /\ last' = [op |-> "load", status |-> out.status,
                         value |-> out.value, error |-> out.error,
                         steps |-> out.steps, warned |-> out.warned,
                         found |-> Found, sd |-> sd,
                         rng_before |-> rng, drift |-> drift,
                         load_optimizer_states |->
                             neox_args["deepspeed"]
                             /\ load_optim_and_scheduler(neox_args),
                         load_lr_scheduler_states |->
                             neox_args["deepspeed"]
                             /\ load_optim_and_scheduler(neox_args)]
    /\ UNCHANGED <<neox_args, local, diskVars, rankVars>>

\* the job is started again: a new process with freshly seeded generators
Restart ==
    /\ phase # "start"
    /\ phase' = "start"
    /\ iteration' = 0
    /\ rng' = FreshRng
    /\ last' = NoCall
    /\ UNCHANGED <<neox_args, local, diskVars, rankVars>>

Next ==
    \/ BeginTraining
    \/ TrainStep
    \/ SaveCheckpoint
    \/ LoadCheckpoint
    \/ Restart

Spec == Init /\ [][Next]_vars

-----------------------------------------------------------------------------
(* SpecRanks: every rank executes save_checkpoint, one statement at a      *)
(* time; torch.distributed.barrier() lets a rank pass once all arrived.    *)

Ranks == 0..(NumRanks - 1)

\* the checkpoint directories of earlier saves
StepDirs == {StepDirName(i) : i \in Iterations}

RankConfigs ==
    {Config(DefaultFlags, k) : k \in KeepValues}
    \cup {Config([DefaultFlags EXCEPT !["deepspeed"] = FALSE], None)}

InitRanks ==
    /\ neox_args \in RankConfigs
    /\ phase = "train"
    /\ iteration \in Iterations
    /\ rng = FreshRng
    /\ entries \in SUBSET StepDirs
    /\ latest = None
    /\ record = <<>>
    /\ last = NoCall
    /\ RanksIdle

\* every rank of the job is at the same save point of the training loop
AllAt(S) == \A r \in Ranks : pc[r] \in S

\* rank r enters save_checkpoint
Call(r) ==
    /\ pc[r] = "idle"
    /\ pc' = [pc EXCEPT ![r] = "save"]
    /\ last' = IF AllAt({"idle"})
               THEN [op |-> "save", dirs_before |-> entries,
                     planned |-> <<>>]
               ELSE last
    /\ UNCHANGED <<neox_args, local, phase, iteration, rng, diskVars,
                   barrier, written, to_delete, removed>>

\* without deepspeed save_checkpoint raises
SaveRaise(r) ==
    /\ pc[r] = "save"
    /\ ~EngineActive(neox_args)
    /\ pc' = [pc EXCEPT ![r] = "raised"]
    /\ UNCHANGED <<neox_args, local, procVars, diskVars,
                   barrier, written, to_delete, removed>>

\* save_ds_checkpoint: the engine writes rank r's part of the checkpoint
EngineWrite(r) ==
    /\ pc[r] = "save"
    /\ EngineActive(neox_args)
    /\ LET out == save_ds_checkpoint(iteration, neox_args, rng)
       IN  /\ record' = out.sd
           /\ rng' = out.rng
    /\ entries' = entries \cup {StepDirName(iteration)}
    /\ latest' = iteration
    /\ written' = written \cup {r}
    /\ pc' = [pc EXCEPT ![r] = "barrier1"]
    /\ UNCHANGED <<neox_args, local, phase, iteration, last,
                   barrier, to_delete, removed>>

\* torch.distributed.barrier(): rank r arrives at barrier b
Arrive(r, b) ==
    /\ pc[r] = IF b = 1 THEN "barrier1" ELSE "barrier2"
    /\ barrier' = barrier \cup {<<b, r>>}
    /\ pc' = [pc EXCEPT ![r] = IF b = 1 THEN "wait1" ELSE "wait2"]
    /\ UNCHANGED <<neox_args, local, procVars, diskVars,
                   written, to_delete, removed>>

\* mutant: the barrier does not wait for the other ranks
BarrierOpen_nowait(b) == TRUE

\* mutant: only the first barrier waits, the second lets a rank through
BarrierOpen_first_only(b) == b = 2 \/ \A q \in Ranks : <<1, q>> \in barrier

\* a barrier opens when every rank has arrived at it
BarrierOpen(b) == \A q \in Ranks : <<b, q>> \in barrier

\* rank r leaves the first barrier and reaches the retention step
Pass1(r) ==
    /\ pc[r] = "wait1"
    /\ BarrierOpen(1)
    /\ pc' = [pc EXCEPT ![r] = IF PruneEnabled(neox_args) THEN "prune"
                               ELSE "barrier2"]
    /\ UNCHANGED <<neox_args, local, procVars, diskVars,
                   barrier, written, to_delete, removed>>

\* delete_old_checkpoints up to the loop: glob, filter, sort, slice
Prune(r) ==
    /\ pc[r] = "prune"
    /\ IF IsPruner(r)
       THEN LET del == ToDelete(AllCkpts(neox_args["save"], entries,
                                         PlainFiles(latest)),
                                neox_args["keep_last_n_checkpoints"])
            IN  /\ to_delete' = del
                /\ last' = [last EXCEPT !.planned = del]
                /\ pc' = [pc EXCEPT ![r] = "removing"]
       ELSE /\ pc' = [pc EXCEPT ![r] = "barrier2"]
            /\ UNCHANGED <<to_delete, last>>
    /\ UNCHANGED <<neox_args, local, phase, iteration, rng, diskVars,
                   barrier, written, removed>>

\* one pass of the loop: shutil.rmtree(ckpt), a missing directory ignored
Remove(r) ==
    /\ pc[r] = "removing"
    /\ to_delete # <<>>
    /\ RmtreeOutcome(Present(neox_args["save"], entries, Head(to_delete)),
                     FALSE) # "raised"
    /\ entries' = RmTree(neox_args["save"], entries, Head(to_delete))
    /\ removed' = Append(removed, [rank |-> r, ckpt |-> Head(to_delete),
                                   gone |-> entries' # entries,
                                   written |-> written])
    /\ to_delete' = Tail(to_delete)
    /\ UNCHANGED <<neox_args, local, procVars, latest, record,
                   pc, barrier, written>>

\* shutil.rmtree(ckpt) raises an error other than FileNotFoundError
RemoveRaise(r) ==
    /\ pc[r] = "removing"
    /\ to_delete # <<>>
    /\ \E fault \in BOOLEAN :
         RmtreeOutcome(Present(neox_args["save"], entries, Head(to_delete)),
                       fault) = "raised"
    /\ pc' = [pc EXCEPT ![r] = "raised"]
    /\ UNCHANGED <<neox_args, local, procVars, diskVars,
                   barrier, written, to_delete, removed>>

\* the loop is over
RemoveDone(r) ==
    /\ pc[r] = "removing"
    /\ to_delete = <<>>
    /\ pc' = [pc EXCEPT ![r] = "barrier2"]
    /\ UNCHANGED <<neox_args, local, procVars, diskVars,
                   barrier, written, to_delete, removed>>

\* rank r leaves the second barrier and returns from save_checkpoint
Pass2(r) ==
    /\ pc[r] = "wait2"
    /\ BarrierOpen(2)
    /\ pc' = [pc EXCEPT ![r] = "returned"]
    /\ UNCHANGED <<neox_args, local, procVars, diskVars,
                   barrier, written, to_delete, removed>>

\* all ranks train on to the next save point
TrainOn ==
    /\ AllAt({"returned"})
    /\ iteration < MaxIter * SaveInterval
    /\ iteration' = iteration + SaveInterval
    /\ pc' = [r \in Ranks |-> "idle"]
    /\ barrier' = {}
    /\ written' = {}
    /\ removed' = <<>>
    /\ last' = NoCall
    /\ UNCHANGED <<neox_args, local, phase, rng, diskVars, to_delete>>

NextRanks ==
    \/ \E r \in Ranks : Call(r)
    \/ \E r \in Ranks : SaveRaise(r)
    \/ \E r \in Ranks : EngineWrite(r)
    \/ \E r \in Ranks, b \in {1, 2} : Arrive(r, b)
    \/ \E r \in Ranks : Pass1(r)
    \/ \E r \in Ranks : Prune(r)
    \/ \E r \in Ranks : Remove(r)
    \/ \E r \in Ranks : RemoveRaise(r)
    \/ \E r \in Ranks : RemoveDone(r)
    \/ \E r \in Ranks : Pass2(r)
    \/ TrainOn

SpecRanks == InitRanks /\ [][NextRanks]_vars

\* the statements of save_checkpoint that rank r can execute once called,
\* but for the retention step
RankStep(r) ==
    \/ SaveRaise(r)
    \/ EngineWrite(r)
    \/ \E b \in {1, 2} : Arrive(r, b)
    \/ Pass1(r)
    \/ Remove(r)
    \/ RemoveRaise(r)
    \/ RemoveDone(r)
    \/ Pass2(r)

\* SpecRanks under fair scheduling: a rank that is inside save_checkpoint
\* and can execute its next statement (an engine write, a barrier that is
\* open, a removal) eventually does. Prune(r) is enabled whenever rank r is
\* at the retention step and is the only step that leaves it, so its weak
\* fairness is that the rank is not at that step for ever.
SpecRanksFair ==
    /\ SpecRanks
    /\ \A r \in Ranks : WF_vars(RankStep(r)) /\ []<>(pc[r] # "prune")

-----------------------------------------------------------------------------
(* SpecFs: SpecRanks with a save directory that something else deletes     *)
(* from while rank 0 is in its removal loop.                               *)

\* the directory rank 0 is about to remove disappears between the glob and
\* the rmtree
ExternalRemove ==
    /\ pc[0] = "removing"
    /\ to_delete # <<>>
    /\ Present(neox_args["save"], entries, Head(to_delete))
    /\ entries' = RmTree(neox_args["save"], entries, Head(to_delete))
    /\ UNCHANGED <<neox_args, local, procVars, latest, record, rankVars>>

NextFs ==
    \/ NextRanks
    \/ ExternalRemove

SpecFs == InitRanks /\ [][NextFs]_vars

-----------------------------------------------------------------------------
(* SpecFwd: every rank executes do_forward_pass, from save_ds_checkpoint    *)
(* (call "probe", no context tokens) or from check_forward_pass (call      *)
(* "check", the saved tokens and logits), one statement at a time.         *)

\* the values a context-token tensor takes
TokenValues == {1, 2}

\* what the mpu accessors and the model answer on each rank: data-parallel
\* replicas, one model-parallel group with source rank 0, or a pipeline
\* whose last stage is the highest rank
Topologies ==
    {[r \in Ranks |-> [dp_rank |-> r, src_rank |-> r,
                       is_pipe_parallel |-> FALSE, is_last_stage |-> TRUE]],
     [r \in Ranks |-> [dp_rank |-> 0, src_rank |-> 0,
                       is_pipe_parallel |-> FALSE, is_last_stage |-> TRUE]],
     [r \in Ranks |-> [dp_rank |-> 0, src_rank |-> r,
                       is_pipe_parallel |-> TRUE,
                       is_last_stage |-> (r = NumRanks - 1)]]}

\* rank r's state when it calls: its place in the topology, the arguments
\* of the call, the model's mode
LocalAtCall(topo, call, train) ==
    [dp_rank |-> topo.dp_rank, src_rank |-> topo.src_rank,
     is_pipe_parallel |-> topo.is_pipe_parallel,
     is_last_stage |-> topo.is_last_stage,
     call |-> call,
     context_tokens |-> IF call = "check" THEN SavedTokens ELSE None,
     checkpoint_logits |-> IF call = "check"
                           THEN ForwardLogits(SavedTokens, 0) ELSE None,
     training |-> train, at_call |-> train, model_was_in_train |-> train,
     drawn |-> None, context_tokens_tensor |-> None, ran_on |-> None,
     logits |-> None, ret_tokens |-> None, ret_logits |-> None,
     verdict |-> "none", warned |-> FALSE, failed_in |-> "none"]

InitFwd ==
    /\ neox_args = Config([DefaultFlags EXCEPT
                            !["checkpoint_validation_with_forward_pass"] = TRUE],
                          None)
    /\ phase = "train"
    /\ iteration = 0
    /\ rng = FreshRng
    /\ entries = {}
    /\ latest = None
    /\ record = <<>>
    /\ last = NoCall
    /\ pc = [r \in Ranks |-> "idle"]
    /\ barrier = {}
    /\ written = {}
    /\ to_delete = <<>>
    /\ removed = <<>>
    /\ \E topo \in Topologies, call \in {"probe", "check"}, train \in BOOLEAN :
         local = [r \in Ranks |-> LocalAtCall(topo[r], call, train)]

fwdFrame == <<neox_args, procVars, diskVars, written, to_delete, removed>>

\* rank r enters do_forward_pass
FwdCall(r) ==
    /\ pc[r] = "idle"
    /\ pc' = [pc EXCEPT ![r] = "f_barrier1"]
    /\ UNCHANGED <<fwdFrame, barrier, local>>

\* torch.distributed.barrier(): rank r arrives at the b-th barrier
FwdArrive(r, b) ==
    /\ pc[r] = <<"f_barrier1", "f_barrier2", "f_barrier3">>[b]
    /\ barrier' = barrier \cup {<<b, r>>}
    /\ pc' = [pc EXCEPT ![r] = <<"f_wait1", "f_wait2", "f_wait3">>[b]]
    /\ UNCHANGED <<fwdFrame, local>>

\* rank r leaves the b-th barrier
FwdPass(r, b) ==
    /\ pc[r] = <<"f_wait1", "f_wait2", "f_wait3">>[b]
    /\ BarrierOpen(b)
    /\ pc' = [pc EXCEPT ![r] = <<"f_eval", "f_forward", "f_return">>[b]]
    /\ UNCHANGED <<fwdFrame, barrier, local>>

\* model_was_in_train = model.training; model.eval(); the context tokens:
\* the ones given, or a random tensor drawn on this rank
FwdEval(r) ==
    /\ pc[r] = "f_eval"
    /\ \E t \in (IF local[r].context_tokens = None THEN TokenValues
                  ELSE {local[r].context_tokens}) :
         local' = [local EXCEPT ![r] =
                     [@ EXCEPT !.model_was_in_train = local[r].training,
                               !.training = FALSE,
                               !.drawn = t,
                               !.context_tokens_tensor = t]]
    /\ pc' = [pc EXCEPT ![r] = "f_broadcast"]
    /\ UNCHANGED <<fwdFrame, barrier>>

\* mutant: the broadcast leaves each rank its own tensor
Broadcast_keep_own(own, src_tensor) == own

\* torch.distributed.broadcast(tensor, src, group): the tensor of every
\* rank of the group becomes the source rank's
Broadcast(own, src_tensor) == src_tensor

\* rank r completes the broadcast once the source rank has entered it
FwdBroadcast(r) ==
    /\ pc[r] = "f_broadcast"
    /\ LET src == local[r].src_rank
       IN  /\ pc[src] \notin {"idle", "f_barrier1", "f_wait1", "f_eval"}
           /\ local[src].failed_in # "broadcast"
           /\ local' = [local EXCEPT ![r].context_tokens_tensor =
                          Broadcast(@, local[src].context_tokens_tensor)]
    /\ pc' = [pc EXCEPT ![r] = "f_barrier2"]
    /\ UNCHANGED <<fwdFrame, barrier>>

\* the broadcast or the forward pass raises on rank r
FwdFail(r) ==
    /\ pc[r] \in {"f_broadcast", "f_forward"}
    /\ local' = [local EXCEPT ![r].failed_in =
                    IF pc[r] = "f_broadcast" THEN "broadcast" ELSE "forward"]
    /\ pc' = [pc EXCEPT ![r] = "failed"]
    /\ UNCHANGED <<fwdFrame, barrier>>

\* the forward pass: logits on every rank but the non-final pipeline stages
FwdForward(r) ==
    /\ pc[r] = "f_forward"
    /\ \E drift \in (IF local[r].call = "check" THEN Drifts ELSE {0}) :
         local' = [local EXCEPT ![r] =
                     [@ EXCEPT !.ran_on = local[r].context_tokens_tensor,
                               !.logits =
                                   IF /\ local[r].is_pipe_parallel
                                      /\ ~local[r].is_last_stage
                                   THEN None
                                   ELSE ForwardLogits(
                                          local[r].context_tokens_tensor,
                                          drift)]]
    /\ pc' = [pc EXCEPT ![r] = "f_barrier3"]
    /\ UNCHANGED <<fwdFrame, barrier>>

\* if model_was_in_train: model.train(); return the tokens and the logits
FwdReturn(r) ==
    /\ pc[r] = "f_return"
    /\ local' = [local EXCEPT ![r] =
                    [@ EXCEPT !.training = IF local[r].model_was_in_train
                                           THEN TRUE ELSE local[r].training,
                              !.ret_tokens = local[r].context_tokens_tensor,
                              !.ret_logits = local[r].logits]]
    /\ pc' = [pc EXCEPT ![r] = IF local[r].call = "probe" THEN "returned"
                               ELSE "f_compare"]
    /\ UNCHANGED <<fwdFrame, barrier>>

\* check_forward_pass compares the logits returned with the saved ones
FwdCompare(r) ==
    /\ pc[r] = "f_compare"
    /\ LET res == CompareLogits(local[r].ret_logits,
                                local[r].checkpoint_logits, local[r].dp_rank)
       IN  /\ local' = [local EXCEPT ![r] =
                           [@ EXCEPT !.verdict = res.verdict,
                                     !.warned = res.warned]]
           /\ pc' = [pc EXCEPT ![r] = IF res.verdict = "far" THEN "asserted"
                                      ELSE "passed"]
    /\ UNCHANGED <<fwdFrame, barrier>>

NextFwd ==
    \/ \E r \in Ranks : FwdCall(r)
    \/ \E r \in Ranks, b \in {1, 2, 3} : FwdArrive(r, b)
    \/ \E r \in Ranks, b \in {1, 2, 3} : FwdPass(r, b)
    \/ \E r \in Ranks : FwdEval(r)
    \/ \E r \in Ranks : FwdBroadcast(r)
    \/ \E r \in Ranks : FwdFail(r)
    \/ \E r \in Ranks : FwdForward(r)
    \/ \E r \in Ranks : FwdReturn(r)
    \/ \E r \in Ranks : FwdCompare(r)

SpecFwd == InitFwd /\ [][NextFwd]_vars

-----------------------------------------------------------------------------
(* SpecLoad: every rank executes load_checkpoint on a save directory that   *)
(* holds one checkpoint; the engine of each rank finds its part of it or   *)
(* not, and hands it the state_dict it reads.                              *)

LoadConfigs ==
    {Config(DefaultFlags, None),
     Config([DefaultFlags EXCEPT !["finetune"] = TRUE], None),
     Config([DefaultFlags EXCEPT !["no_load_rng"] = TRUE], None)}

InitLoad ==
    /\ neox_args \in LoadConfigs
    /\ phase = "start"
    /\ iteration = 0
    /\ rng = FreshRng
    /\ entries = {StepDirName(SaveInterval)}
    /\ latest = SaveInterval
    /\ record = save_ds_checkpoint(SaveInterval, neox_args, FreshRng).sd
    /\ last = NoCall
    /\ pc = [r \in Ranks |-> "idle"]
    /\ barrier = {}
    /\ written = {}
    /\ to_delete = <<>>
    /\ removed = <<>>
    /\ local = [r \in Ranks |-> [found |-> FALSE, status |-> "none",
                                 value |-> None, steps |-> <<>>,
                                 passed |-> FALSE]]

\* rank r runs load_checkpoint up to its return, its raise, its exit, or
\* the barrier of line 249
LoadCall(r) ==
    /\ pc[r] = "idle"
    /\ \E found \in BOOLEAN :
       \E sd \in (IF found THEN StateDicts(record) ELSE {<<>>}) :
         LET out == load_checkpoint(neox_args, found, sd, rng, 0)
             waits == "barrier" \in Range(out.steps)
         IN  /\ local' = [local EXCEPT ![r] =
                            [found |-> found, status |-> out.status,
                             value |-> out.value, steps |-> out.steps,
                             passed |-> FALSE]]
             /\ pc' = [pc EXCEPT ![r] = IF waits THEN "l_barrier"
                                        ELSE out.status]
    /\ UNCHANGED <<fwdFrame, barrier>>

\* torch.distributed.barrier() of line 249: rank r arrives
LoadArrive(r) ==
    /\ pc[r] = "l_barrier"
    /\ barrier' = barrier \cup {<<1, r>>}
    /\ pc' = [pc EXCEPT ![r] = "l_wait"]
    /\ UNCHANGED <<fwdFrame, local>>

\* rank r leaves the barrier and returns the iteration
LoadPass(r) ==
    /\ pc[r] = "l_wait"
    /\ BarrierOpen(1)
    /\ local' = [local EXCEPT ![r].passed = TRUE]
    /\ pc' = [pc EXCEPT ![r] = "returned"]
    /\ UNCHANGED <<fwdFrame, barrier>>

NextLoad ==
    \/ \E r \in Ranks : LoadCall(r)
    \/ \E r \in Ranks : LoadArrive(r)
    \/ \E r \in Ranks : LoadPass(r)

SpecLoad == InitLoad /\ [][NextLoad]_vars

-----------------------------------------------------------------------------
(* SpecName: get_checkpoint_name applied to two sets of arguments, the     *)
(* second call remembering the first.                                      *)

RECURSIVE ZeroPad(_, _)
\* zeros put in front of s up to the width w; a longer s is left whole
ZeroPad(s, w) == IF Len(s) >= w THEN s ELSE ZeroPad(<<"0">> \o s, w)

\* mutant: the number is cut to its last w digits
FormatPadded_truncating(n, w) ==
    LET s == ZeroPad(Digits(n), w)
    IN  SubSeq(s, Len(s) - w + 1, Len(s))

\* '{:0wd}'.format(n) for n >= 0
FormatPadded(n, w) == ZeroPad(Digits(n), w)

\* os.path.join(a, b) for a relative b
os_path_join(a, b) ==
    IF Len(a) = 0 \/ a[Len(a)] = "/" THEN a \o b ELSE a \o <<"/">> \o b

ReleaseDir == <<"r", "e", "l", "e", "a", "s", "e">>

IterPrefix == <<"i", "t", "e", "r", "_">>

MpRankPrefix == <<"m", "p", "_", "r", "a", "n", "k", "_">>

PayloadFile == <<"m", "o", "d", "e", "l", "_", "o", "p", "t", "i", "m", "_",
                 "r", "n", "g", ".", "p", "t">>

\* get_checkpoint_name(checkpoints_path, iteration, release, mp_rank) on a
\* process whose mpu.get_model_parallel_rank() is own_rank
get_checkpoint_name(checkpoints_path, it, release, mp_rank, own_rank) ==
    LET directory == IF release THEN ReleaseDir
                     ELSE IterPrefix \o FormatPadded(it, 7)
        rank == IF mp_rank = None THEN own_rank ELSE mp_rank
    IN  os_path_join(
            os_path_join(os_path_join(checkpoints_path, directory),
                         MpRankPrefix \o FormatPadded(rank, 2)),
            PayloadFile)

\* the iterations named: short ones, seven digits, more than seven
NameIterations == {0, 5, 10, 1234567, 10000000, 12345678}

\* the mp_rank arguments given, None when it is omitted
NameRankArgs == {None, 0, 1, 12, 123}

\* the model-parallel ranks of the calling process
NameOwnRanks == {0, 3}

InitName ==
    /\ neox_args = Config(DefaultFlags, None)
    /\ phase = "start"
    /\ iteration = 0
    /\ rng = FreshRng
    /\ entries = {}
    /\ latest = None
    /\ record = <<>>
    /\ last = NoCall
    /\ RanksIdle

\* one call; prev is the call before it
GetCheckpointName ==
    \E it \in NameIterations, release \in BOOLEAN,
       mp_rank \in NameRankArgs, own_rank \in NameOwnRanks :
      /\ mp_rank # None => own_rank = 0
      /\ last' = [op |-> "name", iteration |-> it, release |-> release,
                  mp_rank |-> mp_rank, own_rank |-> own_rank,
                  path |-> get_checkpoint_name(SaveDir, it, release,
                                               mp_rank, own_rank),
                  prev |-> IF last.op = "name"
                           THEN [f \in DOMAIN last \ {"prev"} |-> last[f]]
                           ELSE NoCall]
      /\ UNCHANGED <<neox_args, local, phase, iteration, rng, diskVars, rankVars>>

NextName == GetCheckpointName

SpecName == InitName /\ [][NextName]_vars

-----------------------------------------------------------------------------
(* SpecPrune: delete_old_checkpoints called once on rank 0, for a save     *)
(* directory given by a relative or an absolute path, with or without a    *)
(* trailing slash, from a working directory. The file system holds one     *)
(* directory, the save directory; a path that resolves elsewhere names no  *)
(* directory and its glob is empty.                                        *)

\* the directory of the non-release checkpoint of an iteration
IterDirName(it) == IterPrefix \o FormatPadded(it, 7)

\* a sub-directory that is no checkpoint
LogsDir == <<"l", "o", "g", "s">>

\* the sub-directories the save directory may hold
PruneDirs ==
    {StepDirName(SaveInterval), StepDirName(2 * SaveInterval),
     IterDirName(SaveInterval), LogsDir}

\* the plain files of the save directory: `latest`, and a file whose name
\* matches the pattern
PruneFiles == {LatestFile, StepDirName(SaveInterval + 2)}

\* a save directory whose own name contains the pattern
StepsDir == GlobalStepStr \o <<"s">>

\* neox_args.save as configured
PruneSaveDirs ==
    LET bases == {SaveDir, <<"/">> \o SaveDir, StepsDir}
    IN  bases \cup {b \o <<"/">> : b \in bases}

\* the working directory of the process
PruneCwds == {<<"/">>, <<"/", "r">>}

RECURSIVE RStripSlashes(_)
\* a path without its trailing slashes ("/" stays)
RStripSlashes(s) ==
    IF Len(s) > 1 /\ s[Len(s)] = "/"
    THEN RStripSlashes(SubSeq(s, 1, Len(s) - 1)) ELSE s

\* the directory a path names to the operating system: trailing slashes
\* do not count, a relative path starts at the working directory
Locate(path, cwd) ==
    LET p == RStripSlashes(path)
    IN  IF Len(p) > 0 /\ p[1] = "/" THEN p ELSE os_path_join(cwd, p)

\* delete_old_checkpoints(save_dir, n_to_keep) on rank 0, no removal
\* failing, in a file system whose save directory holds the
\* sub-directories dirs and the plain files files
delete_old_checkpoints(save_dir, cwd, n_to_keep, dirs, files) ==
    LET listed == Locate(ListedDir(save_dir), cwd)
        hit == listed = Locate(save_dir, cwd)
        all_ckpts == AllCkpts(save_dir, IF hit THEN dirs ELSE {},
                              IF hit THEN files ELSE {})
        del == ToDelete(all_ckpts, n_to_keep)
    IN  [listed |-> listed, all_ckpts |-> all_ckpts, to_delete |-> del,
         left |-> IF hit
                  THEN AfterRemovals(save_dir, dirs, del, Len(del))
                  ELSE dirs]

InitPrune ==
    /\ \E save_dir \in PruneSaveDirs, keep \in 0..MaxKeep :
          neox_args = [Config(DefaultFlags, keep) EXCEPT !["save"] = save_dir]
    /\ \E cwd \in PruneCwds : local = [cwd |-> cwd]
    /\ entries \in SUBSET PruneDirs
    /\ phase = "start"
    /\ iteration = 0
    /\ rng = FreshRng
    /\ latest = None
    /\ record = <<>>
    /\ last = NoCall
    /\ pc = [r \in Ranks |-> "idle"]
    /\ barrier = {}
    /\ written = {}
    /\ to_delete = <<>>
    /\ removed = <<>>

DeleteOldCheckpoints ==
    /\ last = NoCall
    /\ LET save_dir == neox_args["save"]
           n_to_keep == neox_args["keep_last_n_checkpoints"]
           res == delete_old_checkpoints(save_dir, local.cwd, n_to_keep,
                                         entries, PruneFiles)
       IN  /\ entries' = res.left
           /\ last' = [op |-> "prune", save_dir |-> save_dir,
                       cwd |-> local.cwd, n_to_keep |-> n_to_keep,
                       dirs_before |-> entries, listed |-> res.listed,
                       all_ckpts |-> res.all_ckpts,
                       to_delete |-> res.to_delete]
    /\ UNCHANGED <<neox_args, local, phase, iteration, rng, latest, record,
                   rankVars>>

NextPrune == DeleteOldCheckpoints

SpecPrune == InitPrune /\ [][NextPrune]_vars

-----------------------------------------------------------------------------
(* Properties of load_checkpoint and of the save / load round trip (Spec). *)

Loaded == last.op = "load" /\ neox_args["deepspeed"]

LoadedFound == Loaded /\ last.found

\* the architecture arguments of the loaded record that differ from the run's
Mismatches(sd) ==
    IF "args" \in DOMAIN sd
    THEN {n \in DOMAIN sd["args"] : sd["args"][n] # neox_args[n]}
    ELSE {}

\* the first of them in the order of the record
FirstMismatch(sd) ==
    ArgOrder[CHOOSE i \in 1..Len(ArgOrder) :
                /\ ArgOrder[i] \in Mismatches(sd)
                /\ \A j \in 1..(i - 1) : ArgOrder[j] \notin Mismatches(sd)]

\* the load restores RNG state, and the record has every RNG key
RestoresRng == ~neox_args["finetune"] /\ ~neox_args["no_load_rng"]

\* C1: after save_checkpoint stored a record with iteration i (0 included),
\* a load with the same configuration, finetune off, that finds this
\* checkpoint (as written, its RNG keys there when they are restored, the
\* forward pass not far off) returns exactly i.
C1_RoundTrip ==
    (/\ LoadedFound
     /\ ~neox_args["finetune"]
     /\ last.sd = record
     /\ (RestoresRng => RngKeys \subseteq DOMAIN last.sd)
     /\ last.drift < 2)
    => /\ last.status = "returned"
       /\ last.value = last.sd["iteration"]

\* C2 as stated: a record with a differing architecture argument makes the
\* load fail with the error that names the field and both values, returns
\* nothing and restores no RNG state, whatever finetune is.
C2_Original ==
    (LoadedFound /\ Mismatches(last.sd) # {})
    => /\ last.status = "raised"
       /\ last.error.kind = "AssertionError"
       /\ last.error.field \in Mismatches(last.sd)
       /\ last.error.ckpt = last.sd["args"][last.error.field]
       /\ last.error.cur = neox_args[last.error.field]
       /\ last.value = None
       /\ rng = last.rng_before

\* the record has an iteration marker load_checkpoint accepts: a non-zero
\* `iteration`, or a `total_iters`
HasMarker(sd) ==
    \/ ("iteration" \in DOMAIN sd /\ sd["iteration"] # 0)
    \/ "total_iters" \in DOMAIN sd

\* C2 amended: a record with a differing architecture argument always makes
\* the load fail, return nothing and restore no RNG state, whatever
\* finetune is; the error names the first differing field and both values
\* when finetune is set or the record has an accepted iteration marker, and
\* is the missing-iteration error otherwise.
C2_ArgsMismatchFatal ==
    (LoadedFound /\ Mismatches(last.sd) # {})
    => /\ last.status = "raised"
       /\ last.value = None
       /\ rng = last.rng_before
       /\ "rng" \notin Range(last.steps)
       /\ IF neox_args["finetune"] \/ HasMarker(last.sd)
          THEN /\ last.error.kind = "AssertionError"
               /\ last.error.field = FirstMismatch(last.sd)
               /\ last.error.ckpt = last.sd["args"][last.error.field]
               /\ last.error.cur = neox_args[last.error.field]
          ELSE last.error.kind = "ValueError_iteration"

C2_Witness ==
    /\ LoadedFound
    /\ neox_args["finetune"]
    /\ Cardinality(Mismatches(last.sd)) = 2
    /\ "padded_vocab_size" \in Mismatches(last.sd)
    /\ last.error.kind = "AssertionError"
    /\ last.error.field = "hidden_size"
    /\ last.error.ckpt = 24

\* C3: a fine-tune load of a found checkpoint never fails on the iteration,
\* returns 0 whatever the record stores, also when it stores no iteration,
\* (it fails only in the architecture check or the forward-pass check) and
\* leaves every RNG domain as it was, also when the record holds RNG state
\* and no_load_rng is false.
C3_FinetuneLoad ==
    (LoadedFound /\ neox_args["finetune"])
    => /\ last.status \in {"returned", "raised"}
       /\ last.status = "returned" => last.value = 0
       /\ last.status = "raised"
            => last.error.kind \in {"AssertionError", "AssertionError_close"}
       /\ (Mismatches(last.sd) = {} /\ last.drift < 2)
            => last.status = "returned"
       /\ rng = last.rng_before
       /\ "rng" \notin Range(last.steps)

C3_Witness ==
    /\ LoadedFound
    /\ neox_args["finetune"] /\ ~neox_args["no_load_rng"]
    /\ RngKeys \subseteq DOMAIN last.sd
    /\ \A k \in RngKeys : last.sd[k] # rng[k]
    /\ "iteration" \in DOMAIN last.sd /\ last.sd["iteration"] = SaveInterval
    /\ last.status = "returned" /\ last.value = 0

C3_WitnessNoIteration ==
    /\ LoadedFound
    /\ neox_args["finetune"]
    /\ ~HasMarker(last.sd) /\ "iteration" \notin DOMAIN last.sd
    /\ last.status = "returned" /\ last.value = 0

\* C4: when the engine finds no checkpoint, load_checkpoint returns 0
\* without raising and without the iteration, architecture, forward-pass
\* and RNG steps, whatever finetune, no_load_rng and the validation flag are.
C4_NotFound ==
    (Loaded /\ ~last.found)
    => /\ last.status = "returned"
       /\ last.value = 0
       /\ last.error = NoError
       /\ last.steps = <<"engine_load">>
       /\ ~last.warned
       /\ rng = last.rng_before

C4_Witness ==
    /\ Loaded /\ ~last.found
    /\ ~neox_args["finetune"] /\ ~neox_args["no_load_rng"]
    /\ neox_args["checkpoint_validation_with_forward_pass"]
    /\ last.status = "returned" /\ last.value = 0

\* C5: for a non-fine-tune load of a found checkpoint the iteration is the
\* record's `iteration` or, when that is absent, its `total_iters`; the
\* load fails on the iteration exactly when the record has neither, before
\* the architecture check and before any RNG domain is modified.
C5_IterationResolution ==
    (LoadedFound /\ ~neox_args["finetune"])
    => /\ last.error.kind = "ValueError_iteration"
            <=> (/\ "iteration" \notin DOMAIN last.sd
                 /\ "total_iters" \notin DOMAIN last.sd)
       /\ last.error.kind = "ValueError_iteration"
            => /\ last.status = "raised"
               /\ "args" \notin Range(last.steps)
               /\ rng = last.rng_before
       /\ last.status = "returned"
            => last.value = IF "iteration" \in DOMAIN last.sd
                            THEN last.sd["iteration"]
                            ELSE last.sd["total_iters"]

\* C6: for a load that is not fine-tune and restores RNG state, a record
\* that lacks one of the five RNG keys ends the process and the load
\* returns no iteration (by sys.exit once the restoration is reached); with
\* all five present, a load that returns has set every domain to the
\* stored value.
C6_RngKeys ==
    (LoadedFound /\ RestoresRng)
    => /\ ~(RngKeys \subseteq DOMAIN last.sd)
            => /\ last.status # "returned"
               /\ last.value = None
               /\ "rng" \in Range(last.steps) => last.status = "exited"
       /\ (RngKeys \subseteq DOMAIN last.sd /\ last.status = "returned")
            => /\ "rng" \in Range(last.steps)
               /\ \A k \in RngKeys : rng[k] = last.sd[k]

C6_WitnessMissing ==
    /\ LoadedFound /\ RestoresRng
    /\ RngKeys \ DOMAIN last.sd = {"cuda_rng_state"}
    /\ last.status = "exited"

C6_WitnessRestored ==
    /\ LoadedFound /\ RestoresRng
    /\ RngKeys \subseteq DOMAIN last.sd
    /\ last.status = "returned"
    /\ \A k \in RngKeys : rng[k] = last.sd[k] /\ rng[k] # last.rng_before[k]

\* C16: without the distributed engine save_checkpoint and load_checkpoint
\* raise before any effect: no record or directory is ever written, none
\* is deleted, no RNG domain is changed, the load runs none of its steps
\* (no barrier) and returns no iteration.
C16_EngineRequired ==
    ~neox_args["deepspeed"]
    => /\ entries = {} /\ latest = None /\ record = <<>>
       /\ last.op \in {"save", "load"}
            => /\ last.status = "raised"
               /\ last.error.kind = "ValueError_deepspeed"
               /\ rng = last.rng_before
       /\ last.op = "load"
            => /\ last.value = None
               /\ last.steps = <<>>
               /\ ~last.warned

C16_Witness ==
    /\ ~neox_args["deepspeed"]
    /\ last.op = "save"
    /\ last.status = "raised"
    /\ iteration = SaveInterval
    /\ entries = {}

C16_WitnessLoad ==
    /\ ~neox_args["deepspeed"]
    /\ last.op = "load"
    /\ last.status = "raised"
    /\ last.value = None

\* the load has come to the validation step: the iteration was resolved and
\* the architecture arguments agree
ReachedValidation ==
    /\ LoadedFound
    /\ neox_args["finetune"] \/ HasMarker(last.sd)
    /\ Mismatches(last.sd) = {}

ValidationOn == neox_args["checkpoint_validation_with_forward_pass"]

\* C18: the forward pass is run on load exactly when validation is on and
\* the record has a validation payload; with validation on and no payload
\* the load warns, does not fail for it, restores the RNG state and returns
\* the stored iteration.
C18_ValidationCondition ==
    ReachedValidation
    => /\ "forward_pass" \in Range(last.steps)
            <=> (ValidationOn /\ "checkpoint_validation" \in DOMAIN last.sd)
       /\ (ValidationOn /\ "checkpoint_validation" \notin DOMAIN last.sd)
            => /\ last.warned
               /\ last.status # "raised"
               /\ RestoresRng => "rng" \in Range(last.steps)
               /\ (RestoresRng => RngKeys \subseteq DOMAIN last.sd)
                    => /\ last.status = "returned"
                       /\ RestoresRng
                            => \A k \in RngKeys : rng[k] = last.sd[k]
                       /\ last.value =
                            IF neox_args["finetune"] THEN 0
                            ELSE IF "iteration" \in DOMAIN last.sd
                                    /\ last.sd["iteration"] # 0
                                 THEN last.sd["iteration"]
                                 ELSE last.sd["total_iters"]

C18_Witness ==
    /\ ReachedValidation
    /\ ValidationOn /\ "checkpoint_validation" \notin DOMAIN last.sd
    /\ RestoresRng
    /\ last.warned
    /\ last.status = "returned"
    /\ last.value = SaveInterval
    /\ \E k \in RngKeys : rng[k] # last.rng_before[k]

C18_WitnessOff ==
    /\ ReachedValidation
    /\ ~ValidationOn /\ "checkpoint_validation" \in DOMAIN last.sd
    /\ "forward_pass" \notin Range(last.steps)
    /\ last.status = "returned"

\* a load, with the configuration of the saving run, of the record as
\* save_checkpoint wrote it with no_save_rng set
LoadedUnseeded ==
    /\ LoadedFound
    /\ last.sd = record
    /\ neox_args["no_save_rng"]
    /\ last.drift < 2

\* C21: the record save_checkpoint writes has all the RNG keys when
\* no_save_rng is false and none of them when it is set; a record saved
\* with no_save_rng set makes a load fatal that is not fine-tune and
\* restores RNG state, and loads successfully with no_load_rng or finetune.
C21_RngBundle ==
    /\ record # <<>>
         => IF neox_args["no_save_rng"]
            THEN RngKeys \cap DOMAIN record = {}
            ELSE RngKeys \subseteq DOMAIN record
    /\ LoadedUnseeded
         => IF RestoresRng THEN last.status \in {"raised", "exited"}
            ELSE last.status = "returned"

\* C21 for the records whose iteration the load accepts (C1): the same,
\* and the fatal load is the exit of the RNG restoration
C21_RngBundleMarked ==
    /\ record # <<>>
         => IF neox_args["no_save_rng"]
            THEN RngKeys \cap DOMAIN record = {}
            ELSE RngKeys \subseteq DOMAIN record
    /\ (LoadedUnseeded /\ (neox_args["finetune"] \/ HasMarker(last.sd)))
         => IF RestoresRng THEN last.status = "exited"
            ELSE last.status = "returned"

\* C22: a fine-tune load asks the engine for neither the optimizer state
\* nor the LR-scheduler state, whatever no_load_optim is.
C22_FinetuneResetsOptimizer ==
    (Loaded /\ neox_args["finetune"])
    => /\ ~last.load_optimizer_states
       /\ ~last.load_lr_scheduler_states

\* what the code does instead: the two engine arguments are the negation
\* of no_load_optim, with finetune set or not
C22_OptimizerFollowsFlag ==
    Loaded
    => /\ last.load_optimizer_states = ~neox_args["no_load_optim"]
       /\ last.load_lr_scheduler_states = ~neox_args["no_load_optim"]

\* the load returned, restoring the RNG, from the record as a save that
\* returned wrote it with its RNG states
CycleDone ==
    /\ LoadedFound /\ last.status = "returned"
    /\ last.sd = record
    /\ DOMAIN local # {}
    /\ ~neox_args["no_save_rng"] /\ RestoresRng

\* C26, as stated: with RNG saving and restoring enabled and finetune off,
\* every RNG domain after load_checkpoint returned has the state the saving
\* process had when save_checkpoint returned, with validation-on-save too
C26_RngCycle ==
    CycleDone => \A k \in RngKeys : rng[k] = local.saver_rng[k]

\* C26 away from the defect: without validation-on-save every domain is
\* back at the saver's state; with it every domain but torch's is, and
\* torch's is the state before the probe tokens were drawn
C26_RngCycleBeforeProbe ==
    CycleDone =>
        /\ \A k \in RngKeys \ {"torch_rng_state"} :
               rng[k] = local.saver_rng[k]
        /\ IF neox_args["checkpoint_validation_with_forward_pass"]
           THEN DrawTorch(rng) = local.saver_rng
           ELSE rng = local.saver_rng

\* the failing case of C26: a cycle with validation-on-save
C26_FailingState ==
    /\ CycleDone
    /\ neox_args["checkpoint_validation_with_forward_pass"]
    /\ rng["torch_rng_state"] # local.saver_rng["torch_rng_state"]

\* the load exited in the RNG restoration
ExitedInRng ==
    /\ LoadedFound /\ last.status = "exited"
    /\ \E k \in RngKeys : k \notin DOMAIN last.sd

\* C27, as stated: when the load terminates on a missing RNG key, every RNG
\* domain still has the value it had before the load
C27_NoHalfRestore ==
    ExitedInRng => rng = last.rng_before

\* the first key of the restoration order that the record lacks
FirstMissing(sd) ==
    CHOOSE i \in 1..Len(RngOrder) :
        /\ RngOrder[i] \notin DOMAIN sd
        /\ \A j \in 1..(i - 1) : RngOrder[j] \in DOMAIN sd

\* C27 as the code has it: the domains before the first missing key, in
\* the order of restoration, have the record's state, the others the state
\* before the load
C27_RestoredPrefix ==
    ExitedInRng =>
        \A i \in 1..Len(RngOrder) :
            rng[RngOrder[i]] = IF i < FirstMissing(last.sd)
                               THEN last.sd[RngOrder[i]]
                               ELSE last.rng_before[RngOrder[i]]

\* the failing case of C27: a domain was changed by a load that exited
C27_FailingState ==
    /\ ExitedInRng
    /\ \E k \in RngKeys : rng[k] # last.rng_before[k]

\* C16 across ranks (SpecRanks): without the engine no rank writes, enters
\* a barrier or deletes, and every directory stays.
C16_RanksNoEffect ==
    ~neox_args["deepspeed"]
    => /\ \A r \in Ranks : pc[r] \in {"idle", "save", "raised"}
       /\ barrier = {} /\ written = {} /\ removed = <<>>
       /\ record = <<>> /\ latest = None
       /\ last.op = "save" => entries = last.dirs_before

-----------------------------------------------------------------------------
(* Properties of save_checkpoint across ranks (SpecRanks).                 *)

KeepN == neox_args["keep_last_n_checkpoints"]

\* rank 0 has come out of delete_old_checkpoints without an error
PruneFinished ==
    /\ KeepN # None
    /\ last.op = "save"
    /\ pc[0] \in {"barrier2", "wait2", "returned"}

\* the step numbers of the checkpoint directories among D
StepsOf(D) == {i \in Iterations : StepDirName(i) \in D}

\* the directories in place when rank 0 lists them: the earlier ones and
\* the one of this save
DirsAtPrune == last.dirs_before \cup {StepDirName(iteration)}

\* the n lowest of a set of step numbers
Lowest(S, n) == {i \in S : Cardinality({j \in S : j < i}) < n}

\* the k-th lowest
Kth(S, k) == CHOOSE i \in S : Cardinality({j \in S : j < i}) = k - 1

\* C7: with an integer keep_n and M checkpoint directories, retention
\* deletes exactly the M - keep_n directories with the lowest step numbers,
\* lowest first, when M > keep_n, keeps the keep_n highest, and deletes
\* nothing when M <= keep_n.
C7_PruneOldest ==
    PruneFinished =>
        LET S == StepsOf(DirsAtPrune)
            M == Cardinality(S)
            n == IF M > KeepN THEN M - KeepN ELSE 0
        IN  /\ entries = {StepDirName(i) : i \in S \ Lowest(S, n)}
            /\ Cardinality(entries) = IF M > KeepN THEN KeepN ELSE M
            /\ Len(removed) = n
            /\ \A k \in 1..Len(removed) :
                 /\ removed[k].ckpt =
                        PathOf(neox_args["save"], StepDirName(Kth(S, k)))
                 /\ removed[k].gone

C7_Witness ==
    /\ PruneFinished
    /\ KeepN = 1
    /\ Len(removed) = 2
    /\ removed[1].ckpt = PathOf(SaveDir, StepDirName(0))
    /\ removed[2].ckpt = PathOf(SaveDir, StepDirName(SaveInterval))
    /\ entries = {StepDirName(2 * SaveInterval)}

C7_WitnessNothing ==
    /\ PruneFinished
    /\ KeepN = 2
    /\ Cardinality(DirsAtPrune) = 2
    /\ removed = <<>>
    /\ entries = DirsAtPrune

\* C8: with keep_last_n_checkpoints None no rank enters retention, nothing
\* is removed, and every directory there before the save is there during
\* and after it, however many there were.
C8_NoRetention ==
    (KeepN = None)
    => /\ \A r \in Ranks : pc[r] \notin {"prune", "removing"}
       /\ removed = <<>>
       /\ to_delete = <<>>
       /\ last.op = "save" => last.dirs_before \subseteq entries

C8_Witness ==
    /\ KeepN = None
    /\ last.op = "save"
    /\ AllAt({"returned"})
    /\ Cardinality(last.dirs_before) = MaxIter
    /\ StepDirName(iteration) \notin last.dirs_before
    /\ entries = last.dirs_before \cup {StepDirName(iteration)}

\* C9: a checkpoint directory is removed only by the process of global
\* rank 0; another rank passes the retention step without deleting.
C9_RankZeroOnly ==
    /\ \A k \in 1..Len(removed) : removed[k].rank = 0
    /\ \A r \in Ranks \ {0} : pc[r] # "removing"
    /\ last.op = "save" /\ pc[0] \notin {"removing", "barrier2", "wait2",
                                         "returned", "raised"}
            => last.dirs_before \subseteq entries

C9_Witness ==
    /\ KeepN # None
    /\ \E r \in Ranks \ {0} : pc[r] \in {"barrier2", "wait2"}
    /\ Len(removed) > 0
    /\ removed[1].rank = 0 /\ removed[1].gone

\* C10: rank 0 removes no checkpoint directory before every rank has
\* completed its engine write of this save.
C10_WritesBeforeDeletes ==
    /\ \A k \in 1..Len(removed) : removed[k].written = Ranks
    /\ pc[0] = "removing" => written = Ranks

C10_Witness ==
    /\ Len(removed) > 0
    /\ removed[1].gone
    /\ removed[1].written = Ranks

\* C11: no rank has returned from save_checkpoint while rank 0 is still in
\* delete_old_checkpoints with a directory of to_delete left to remove, or
\* has yet to list the directories.
C11_NoReturnBeforePruned ==
    (\E r \in Ranks : pc[r] = "returned")
    => /\ pc[0] \notin {"save", "barrier1", "wait1", "prune", "removing"}
       /\ to_delete = <<>>

C11_Witness ==
    /\ KeepN # None
    /\ pc[0] = "wait2"
    /\ \E r \in Ranks \ {0} : pc[r] = "returned"
    /\ Len(removed) = 2
    /\ \A k \in 1..Len(removed) : removed[k].gone

\* C19: after a completed save_checkpoint with keep_last_n_checkpoints
\* N >= 1, whatever directories the save root held and whatever the
\* iteration saved, the directories left are min(N, total) in number and
\* the checkpoint just written, the most recently created one, is among
\* them.
C19_RetentionWindow ==
    (PruneFinished /\ KeepN >= 1)
    => /\ StepDirName(iteration) \in entries
       /\ Cardinality(entries) =
            IF Cardinality(DirsAtPrune) > KeepN THEN KeepN
            ELSE Cardinality(DirsAtPrune)

\* the part of C19 the code keeps: with no directory of a higher step in
\* the save root, the checkpoint just written survives
C19_MonotoneSurvives ==
    (/\ PruneFinished /\ KeepN >= 1
     /\ \A i \in StepsOf(last.dirs_before) : i <= iteration)
    => StepDirName(iteration) \in entries

-----------------------------------------------------------------------------
(* Properties of the removal loop with directories that disappear (SpecFs). *)

\* the to_delete list rank 0 computed for this save
Planned == last.planned

\* the paths rank 0 has called rmtree on without an error leaving the loop
Tried == [k \in 1..Len(removed) |-> removed[k].ckpt]

\* C12: a directory of to_delete that is missing when rmtree reaches it
\* does not stop the loop: it goes on through the whole list, and a loop
\* that was left by an error was left on a directory that is there, with
\* every directory after it in to_delete still in place.
C12_RemovalErrors ==
    (/\ KeepN # None
     /\ last.op = "save"
     /\ pc[0] \in {"removing", "barrier2", "wait2", "returned", "raised"})
    => /\ Tried \o to_delete = Planned
       /\ \A k \in 1..Len(removed) :
            ~Present(neox_args["save"], entries, removed[k].ckpt)
       /\ pc[0] \in {"barrier2", "wait2", "returned"} => to_delete = <<>>
       /\ pc[0] = "raised"
            => /\ to_delete # <<>>
               /\ \A i \in 1..Len(to_delete) :
                    Present(neox_args["save"], entries, to_delete[i])

C12_Witness ==
    /\ KeepN # None
    /\ pc[0] \in {"barrier2", "wait2", "returned"}
    /\ Len(removed) = 2
    /\ ~removed[1].gone
    /\ removed[2].gone

C12_WitnessRaised ==
    /\ KeepN # None
    /\ pc[0] = "raised"
    /\ Len(removed) = 1 /\ ~removed[1].gone
    /\ Len(to_delete) = 2

-----------------------------------------------------------------------------
(* Properties of get_checkpoint_name (SpecName).                           *)

RECURSIVE NumDigits(_)
\* the number of decimal digits of n >= 0
NumDigits(n) == IF n < 10 THEN 1 ELSE 1 + NumDigits(n \div 10)

RECURSIVE SplitPath(_)
\* the components of a path between its slashes
SplitPath(path) ==
    IF \A i \in 1..Len(path) : path[i] # "/" THEN <<path>>
    ELSE LET i == CHOOSE j \in 1..Len(path) :
                     path[j] = "/" /\ \A k \in 1..(j - 1) : path[k] # "/"
         IN  <<SubSeq(path, 1, i - 1)>>
             \o SplitPath(SubSeq(path, i + 1, Len(path)))

\* s is prefix followed by the decimal digits of n, zero-padded to width w
\* and longer when n has more digits
IsPadded(s, prefix, n, w) ==
    LET d == SubSeq(s, Len(prefix) + 1, Len(s))
    IN  /\ SubSeq(s, 1, Len(prefix)) = prefix
        /\ Len(d) = IF NumDigits(n) > w THEN NumDigits(n) ELSE w
        /\ \A i \in 1..Len(d) : IsDigit(d[i])
        /\ IntOf(d) = n

\* the rank a call names: the one given, the caller's own when omitted
NamedRank(call) ==
    IF call.mp_rank = None THEN call.own_rank ELSE call.mp_rank

\* C13: with release=False the path is
\* <root>/iter_<iteration, 7 digits>/mp_rank_<rank, 2 digits>/model_optim_rng.pt,
\* longer numbers written whole, and two calls with different (iteration,
\* rank) give different paths; with release=True the path does not depend
\* on the iteration; an omitted mp_rank stands for the caller's own rank.
C13_CheckpointName ==
    (last.op = "name") =>
        LET c == SplitPath(last.path)
        IN  /\ Len(c) = 4
            /\ c[1] = SaveDir
            /\ IF last.release THEN c[2] = ReleaseDir
               ELSE IsPadded(c[2], IterPrefix, last.iteration, 7)
            /\ IsPadded(c[3], MpRankPrefix, NamedRank(last), 2)
            /\ c[4] = PayloadFile
            /\ (last.prev.op = "name" /\ ~last.release /\ ~last.prev.release
                    /\ last.path = last.prev.path)
                 => /\ last.iteration = last.prev.iteration
                    /\ NamedRank(last) = NamedRank(last.prev)
            /\ (last.prev.op = "name" /\ last.release /\ last.prev.release
                    /\ NamedRank(last) = NamedRank(last.prev))
                 => last.path = last.prev.path

C13_Witness ==
    /\ last.op = "name" /\ last.prev.op = "name"
    /\ ~last.release /\ ~last.prev.release
    /\ last.iteration = 10000000 /\ last.prev.iteration = 0
    /\ last.mp_rank = 123 /\ last.prev.mp_rank = 123
    /\ last.path # last.prev.path

C13_WitnessRelease ==
    /\ last.op = "name" /\ last.prev.op = "name"
    /\ last.release /\ last.prev.release
    /\ last.iteration # last.prev.iteration
    /\ last.mp_rank = None /\ last.own_rank = 3
    /\ last.prev.mp_rank = None /\ last.prev.own_rank = 3
    /\ last.path = last.prev.path

-----------------------------------------------------------------------------
(* Properties of do_forward_pass and check_forward_pass (SpecFwd).         *)

\* rank r has left do_forward_pass, by its return or by an exception
FwdExited(r) ==
    pc[r] \in {"returned", "f_compare", "passed", "asserted", "failed"}

\* C14: on every exit from do_forward_pass, by its return or by a failure
\* of the broadcast or of the forward pass, the model is in the mode it
\* was in at the call.
C14_ModeScoped ==
    \A r \in Ranks :
        (DOMAIN local # {} /\ FwdExited(r))
        => local[r].training = local[r].at_call

\* rank r has been through the comparison of check_forward_pass
Compared(r) == pc[r] \in {"passed", "asserted"}

\* C15 as stated: on a rank with logits, equal logits pass without a
\* warning, close ones pass after a warning, others fail the assertion;
\* on a rank without logits the check passes with no comparison.
C15_Original ==
    \A r \in Ranks :
        Compared(r) =>
            LET new == local[r].ret_logits
                old == local[r].checkpoint_logits
            IN  IF new = None
                THEN pc[r] = "passed" /\ local[r].verdict = "skipped"
                ELSE IF new = old
                THEN pc[r] = "passed" /\ ~local[r].warned
                ELSE IF IsClose(new, old)
                THEN pc[r] = "passed" /\ local[r].warned
                ELSE pc[r] = "asserted"

\* C15 amended: as above, but the warning for logits that are not equal
\* is printed on the ranks whose data-parallel rank is 0 only; on another
\* rank close logits pass silently.
C15_ThreeOutcomes ==
    \A r \in Ranks :
        Compared(r) =>
            LET new == local[r].ret_logits
                old == local[r].checkpoint_logits
            IN  IF new = None
                THEN /\ pc[r] = "passed"
                     /\ local[r].verdict = "skipped"
                     /\ ~local[r].warned
                ELSE IF new = old
                THEN pc[r] = "passed" /\ ~local[r].warned
                ELSE /\ pc[r] = IF IsClose(new, old) THEN "passed"
                                ELSE "asserted"
                     /\ local[r].warned <=> local[r].dp_rank = 0

C15_Witness ==
    \E r \in Ranks :
        /\ pc[r] = "passed"
        /\ local[r].dp_rank # 0
        /\ local[r].ret_logits # None
        /\ local[r].ret_logits # local[r].checkpoint_logits
        /\ ~local[r].warned

C15_WitnessWarned ==
    \E r \in Ranks :
        /\ pc[r] = "passed"
        /\ local[r].ret_logits # local[r].checkpoint_logits
        /\ local[r].warned

C15_WitnessNoLogits ==
    \E r, q \in Ranks :
        /\ pc[r] = "passed"
        /\ local[r].ret_logits = None
        /\ local[r].checkpoint_logits # None
        /\ pc[q] = "asserted"

\* rank r has completed the broadcast of do_forward_pass
PastBroadcast(r) ==
    pc[r] \in {"f_barrier2", "f_wait2", "f_forward", "f_barrier3", "f_wait3",
               "f_return", "returned", "f_compare", "passed", "asserted"}

\* C20: from the broadcast on, the context tokens of every rank are the
\* ones its model-parallel source rank chose, whatever the rank drew
\* itself: the forward pass runs on them and they are the ones returned.
C20_BroadcastTokens ==
    \A r \in Ranks :
        PastBroadcast(r) =>
            LET chosen == local[local[r].src_rank].drawn
            IN  /\ chosen # None
                /\ local[r].context_tokens_tensor = chosen
                /\ local[r].ran_on \in {None, chosen}
                /\ local[r].ret_tokens \in {None, chosen}
                /\ pc[r] \in {"returned", "f_compare", "passed", "asserted"}
                     => /\ local[r].ran_on = chosen
                        /\ local[r].ret_tokens = chosen

C20_Witness ==
    \E r \in Ranks :
        /\ local[r].src_rank # r
        /\ local[r].call = "probe"
        /\ pc[r] = "returned"
        /\ local[r].drawn # local[local[r].src_rank].drawn
        /\ local[r].ran_on = local[local[r].src_rank].drawn
        /\ local[r].ret_tokens = local[local[r].src_rank].drawn

-----------------------------------------------------------------------------
(* Properties of load_checkpoint across ranks (SpecLoad).                  *)

\* C17: every rank that returns an iteration from load_checkpoint, on the
\* found path and on the cold-start path, has passed the final barrier
\* with all ranks arrived; and no rank waits in that barrier while another
\* has left load_checkpoint without arriving at it.
C17_FinalBarrier ==
    /\ \A r \in Ranks :
         pc[r] = "returned"
         => /\ local[r].passed
            /\ \A q \in Ranks : <<1, q>> \in barrier
    /\ \A r, q \in Ranks :
         pc[r] = "l_wait"
         => ~(pc[q] \in {"returned", "raised", "exited"}
              /\ <<1, q>> \notin barrier)

\* the part of C17 the code keeps: a rank that returns on the found path
\* has passed the barrier with all ranks arrived
C17_FoundPathBarrier ==
    \A r \in Ranks :
        (pc[r] = "returned" /\ local[r].found)
        => /\ local[r].passed
           /\ \A q \in Ranks : <<1, q>> \in barrier

-----------------------------------------------------------------------------
(* Properties of delete_old_checkpoints as a function (SpecPrune).         *)

Pruned == last.op = "prune"

\* the globbed path of an entry of the save directory in the call made
PrunePath(e) == PathOf(ListedDir(last.save_dir), e)

\* the call listed the directory save_dir names
ListedHome == last.listed = Locate(last.save_dir, last.cwd)

\* the newest n_to_keep candidates are kept: e is not among them
OutsideKept(e) ==
    \E i \in 1..(Len(last.all_ckpts) - last.n_to_keep) :
        last.all_ckpts[i] = PrunePath(e)

C24_OwnNameOnly ==
    Pruned =>
        \A e \in last.dirs_before \cup PruneFiles :
            (e \notin last.dirs_before \/ ~Contains(e, GlobalStepStr)) =>
                /\ PrunePath(e) \notin Range(last.all_ckpts)
                /\ e \in last.dirs_before => e \in entries

\* C24 away from the defect: the same under a save directory whose path
\* does not contain global_step
C24_OwnNameOutsidePattern ==
    (Pruned /\ ~Contains(ListedDir(last.save_dir), GlobalStepStr)) =>
        \A e \in last.dirs_before \cup PruneFiles :
            (e \notin last.dirs_before \/ ~Contains(e, GlobalStepStr)) =>
                /\ PrunePath(e) \notin Range(last.all_ckpts)
                /\ e \in last.dirs_before => e \in entries

\* the failing case of C24: the logs directory of a save directory named
\* global_steps was deleted
C24_FailingState ==
    /\ Pruned
    /\ LogsDir \in last.dirs_before
    /\ LogsDir \notin entries

\* what the call made would have done with one more slash at the end of
\* save_dir, on the same file system
SlashTwin ==
    delete_old_checkpoints(last.save_dir \o <<"/">>, last.cwd, last.n_to_keep,
                           last.dirs_before, PruneFiles)

\* C25, as stated: with a slash added to save_dir the retention lists the
\* same directory and leaves the same sub-directories
C25_TrailingSlash ==
    Pruned =>
        /\ SlashTwin.listed = last.listed
        /\ SlashTwin.left = entries

\* C25 away from the defect: the same for a relative save_dir, and for any
\* save_dir when the working directory is the root
C25_RelativeTrailingSlash ==
    (Pruned /\ (last.save_dir[1] # "/" \/ last.cwd = <<"/">>)) =>
        /\ SlashTwin.listed = last.listed
        /\ SlashTwin.left = entries

\* the failing case of C25: an absolute save_dir without the slash is
\* pruned, with the slash nothing of it is
C25_FailingState ==
    /\ Pruned
    /\ last.save_dir = <<"/">> \o SaveDir
    /\ last.to_delete # <<>>
    /\ SlashTwin.listed # last.listed
    /\ SlashTwin.left = last.dirs_before

-----------------------------------------------------------------------------
(* Termination of save_checkpoint across ranks (SpecRanksFair).            *)

\* every rank has called save_checkpoint, with the engine active
AllCalled == EngineActive(neox_args) /\ \A r \in Ranks : pc[r] # "idle"

\* every rank has left save_checkpoint
AllLeft == AllAt({"returned", "raised"})

\* a removal on rank 0 raised: with the engine active nothing else raises
RemovalFailed == EngineActive(neox_args) /\ pc[0] = "raised"

\* C28, as stated: once every rank has called save_checkpoint with the
\* engine active, under fair scheduling every rank eventually returns or
\* raises, a failing removal on rank 0 included
C28_DeadlockFree == AllCalled ~> AllLeft

\* C28 away from the defect: every rank leaves unless a removal on rank 0
\* raised
C28_LeavesUnlessRemovalFails == AllCalled ~> (AllLeft \/ RemovalFailed)

\* the failing case of C28: rank 0 has raised in the removal loop and
\* another rank waits in the second barrier, which from here on stays shut
C28_FailingState ==
    /\ RemovalFailed
    /\ \E r \in Ranks : pc[r] = "wait2"
    /\ ~BarrierOpen(2)

\* once a removal on rank 0 has raised, no other rank ever returns
C28_StuckAfterFailure ==
    RemovalFailed => \A r \in Ranks : pc[r] # "returned"

=============================================================================
